---- MODULE Spec2Model ----
(***************************************************************************)
(* Model of solver.py: a 9x9 Sudoku grid (Sudoku.row_values), the unit     *)
(* views over it (Row, Column, Square), the propagator                     *)
(* (Solver.fill_subarray, single_pass, simple_fill) and the recursive      *)
(* search (Solver.dynamic_solve) with its call stack and its exceptions.   *)
(***************************************************************************)
EXTENDS Integers, Sequences, FiniteSets, TLC

VARIABLES input, stack, result, last

vars == <<input, stack, result, last>>

(***************************************************************************)
(* Grid and unit views                                                     *)
(***************************************************************************)

\* SubArray.__len__: every unit has 9 cells; the grid is 9 by 9.
N == 9

Digits == 1..N

\* The value Python's None has in expand_ixs.
None == <<>>

\* Row.matrix_indices
RowIndices(index, ix) == <<index, ix>>

\* Column.matrix_indices
ColumnIndices(index, ix) == <<ix, index>>

\* Square.matrix_indices: divmod(self.index-1, 3), divmod(index-1, 3)
SquareIndices(index, ix) ==
    LET ii == (index - 1) \div 3
        ij == (index - 1) % 3
        ji == (ix - 1) \div 3
        jj == (ix - 1) % 3
    IN  <<ii * 3 + ji + 1, ij * 3 + jj + 1>>

\* A unit view is [kind, index]; matrix_indices dispatches on its class.
matrix_indices(unit, ix) ==
    CASE unit.kind = "Row" -> RowIndices(unit.index, ix)
      [] unit.kind = "Column" -> ColumnIndices(unit.index, ix)
      [] unit.kind = "Square" -> SquareIndices(unit.index, ix)

Row(index) == [kind |-> "Row", index |-> index]
Column(index) == [kind |-> "Column", index |-> index]
Square(index) == [kind |-> "Square", index |-> index]

\* SubArray.__getitem__
SubArrayGet(g, unit, ix) ==
    LET ij == matrix_indices(unit, ix) IN g[ij[1]][ij[2]]

\* SubArray.__iter__: the 9 values of the unit in index order
SubArrayValues(g, unit) == [ix \in 1..N |-> SubArrayGet(g, unit, ix)]

\* A unit view whose write does not reach the grid.
SubArraySet_Lost(g, unit, ix, value) == g

\* SubArray.__setitem__: writes the cell whatever it holds
SubArraySet(g, unit, ix, value) ==
    LET ij == matrix_indices(unit, ix) IN [g EXCEPT ![ij[1]][ij[2]] = value]

\* SubArray.is_valid: no non-zero value occurs twice among the 9 values
SubArrayIsValid(g, unit) ==
    LET vs == SubArrayValues(g, unit)
    IN  \A a, b \in 1..N : (a < b /\ vs[a] # 0) => vs[a] # vs[b]

\* Sudoku.rows / columns / squares
rows == [index \in 1..N |-> Row(index)]
columns == [index \in 1..N |-> Column(index)]
squares == [index \in 1..N |-> Square(index)]

\* Sudoku.subarrays: the row, column and square covering cell (i, j)
subarrays(i, j) ==
    LET q == ((i - 1) \div 3) * 3 + ((j - 1) \div 3) + 1
    IN  <<Row(i), Column(j), Square(q)>>

\* Sudoku.__setitem__: asserts the cell is empty, then writes it
SudokuSet(g, i, j, value) ==
    IF g[i][j] = 0
    THEN [grid |-> [g EXCEPT ![i][j] = value], exc |-> "none"]
    ELSE [grid |-> g, exc |-> "AssertionError"]

\* Sudoku.fillcount
fillcount(g) == Cardinality({ij \in (1..N) \X (1..N) : g[ij[1]][ij[2]] > 0})

\* solved with the digits of 81 swapped.
solved_Swapped(g) == fillcount(g) >= 18

\* Sudoku.solved
solved(g) == fillcount(g) >= 81

\* Sudoku.is_valid
is_valid(g) ==
    /\ \A index \in 1..N : SubArrayIsValid(g, rows[index])
    /\ \A index \in 1..N : SubArrayIsValid(g, columns[index])
    /\ \A index \in 1..N : SubArrayIsValid(g, squares[index])

\* set(subarray): the values a unit holds (0 among them when a cell is empty)
SetOf(g, unit) == {SubArrayGet(g, unit, ix) : ix \in 1..N}

\* s - set(row) - set(col) - set(sq), as fill_subarray and dynamic_solve compute it
Possibilities(g, i, j) ==
    LET u == subarrays(i, j)
    IN  ((Digits \ SetOf(g, u[1])) \ SetOf(g, u[2])) \ SetOf(g, u[3])

(***************************************************************************)
(* Propagator: Solver.fill_subarray                                        *)
(***************************************************************************)

\* all_possibilities[ix] = possibilities
DictPut(d, k, val) == [x \in DOMAIN d \cup {k} |-> IF x = k THEN val ELSE d[x]]

\* A record of one cell write: the cell, what it held, what was stored, and
\* the __setitem__ that stored it ("Sudoku" or "SubArray").
WriteRec(i, j, old, new, via) ==
    [i |-> i, j |-> j, old |-> old, new |-> new, via |-> via]

\* A naked single placed without being recorded as seen.
MarkSeen_Forgotten(seen, v) == seen

\* seen.add(v) after a naked single is placed (line 187)
MarkSeen(seen, v) == seen \cup {v}

\* The first loop of fill_subarray (for ix in range(1, 10)), from index ix on:
\* filled cells are recorded as seen, an empty cell with no candidate raises
\* Invalid, one with several candidates is deferred, one with a single
\* candidate is written through Sudoku.__setitem__.
RECURSIVE FillScan(_, _, _)
FillScan(st, subarray, ix) ==
    IF ix > N THEN st
    ELSE
      LET ij == matrix_indices(subarray, ix)
          i == ij[1]
          j == ij[2]
          cur == SubArrayGet(st.grid, subarray, ix)
          possibilities == Possibilities(st.grid, i, j)
      IN  IF cur > 0
          THEN FillScan([st EXCEPT !.seen = @ \cup {cur}], subarray, ix + 1)
          ELSE IF Cardinality(possibilities) = 0
          THEN [st EXCEPT !.exc = "Invalid"]
          ELSE IF Cardinality(possibilities) > 1
          THEN FillScan([st EXCEPT !.all_possibilities = DictPut(@, ix, possibilities)],
                        subarray, ix + 1)
          ELSE
            LET v == CHOOSE x \in possibilities : TRUE
                w == SudokuSet(st.grid, i, j, v)
            IN  IF w.exc # "none"
                THEN [st EXCEPT !.exc = w.exc]
                ELSE FillScan([st EXCEPT !.grid = w.grid,
                                         !.filled = @ + 1,
                                         !.seen = MarkSeen(@, v),
                                         !.writes = Append(@, WriteRec(i, j, cur, v, "Sudoku"))],
                              subarray, ix + 1)

\* The second loop of fill_subarray (for v in range(1, 10)), from value v on:
\* a value not seen with no deferred index raises Invalid, with exactly one it
\* is written there through SubArray.__setitem__.
RECURSIVE FillHidden(_, _, _)
FillHidden(st, subarray, v) ==
    IF v > N THEN st
    ELSE IF v \in st.seen THEN FillHidden(st, subarray, v + 1)
    ELSE
      LET ixs == {ix \in DOMAIN st.all_possibilities : v \in st.all_possibilities[ix]}
      IN  IF Cardinality(ixs) = 0
          THEN [st EXCEPT !.exc = "Invalid"]
          ELSE IF Cardinality(ixs) > 1
          THEN FillHidden(st, subarray, v + 1)
          ELSE
            LET ix == CHOOSE x \in ixs : TRUE
                ij == matrix_indices(subarray, ix)
                cur == SubArrayGet(st.grid, subarray, ix)
            IN  FillHidden([st EXCEPT !.grid = SubArraySet(@, subarray, ix, v),
                                      !.filled = @ + 1,
                                      !.writes = Append(@, WriteRec(ij[1], ij[2], cur, v, "SubArray"))],
                           subarray, v + 1)

\* Solver.fill_subarray: the grid after the call, the count it returns, the
\* writes it made in order, and the exception it raised ("none" when it returns).
fill_subarray(g, subarray) ==
    LET st0 == [grid |-> g, filled |-> 0, seen |-> {},
                all_possibilities |-> [x \in {} |-> {}],
                writes |-> <<>>, exc |-> "none"]
        st1 == FillScan(st0, subarray, 1)
    IN  IF st1.exc # "none" THEN st1 ELSE FillHidden(st1, subarray, 1)

\* The 27 units in the order single_pass visits them: rows, columns, squares.
UnitAt(u) ==
    IF u <= N THEN rows[u]
    ELSE IF u <= 2 * N THEN columns[u - N]
    ELSE squares[u - 2 * N]

(***************************************************************************)
(* Search: the branch-cell choice of Solver.dynamic_solve                  *)
(***************************************************************************)

\* The scan of dynamic_solve, for (i, j) in row-major order, over the cells
\* of row i from column j on: an empty cell with no candidate raises Invalid,
\* one with a single candidate fails the assertion, the first with exactly 2
\* is chosen and ends the scan (break), every other one is appended to
\* all_possibilities. stop tells that the scan ended in this row.
RECURSIVE BranchScanRow(_, _, _, _)
BranchScanRow(g, i, j, sc) ==
    IF j > N THEN sc
    ELSE
      LET possibilities == Possibilities(g, i, j)
      IN  IF g[i][j] > 0 THEN BranchScanRow(g, i, j + 1, sc)
          ELSE IF Cardinality(possibilities) = 0
          THEN [sc EXCEPT !.exc = "Invalid", !.stop = TRUE]
          ELSE IF ~(Cardinality(possibilities) > 1)
          THEN [sc EXCEPT !.exc = "AssertionError", !.stop = TRUE]
          ELSE IF Cardinality(possibilities) = 2
          THEN [sc EXCEPT !.expand_ixs = <<i, j>>,
                          !.expand_possibilities = possibilities,
                          !.stop = TRUE]
          ELSE BranchScanRow(g, i, j + 1,
                             [sc EXCEPT !.all_possibilities =
                                           Append(@, [ij |-> <<i, j>>, p |-> possibilities])])

\* The rows of the scan, from row i on.
RECURSIVE BranchScan(_, _, _)

\* The scan after row i left it as r: over when r stopped, else on to row i + 1.
BranchScanFrom(g, i, r) == IF r.stop THEN r ELSE BranchScan(g, i + 1, r)

BranchScan(g, i, sc) ==
    IF i > N THEN sc ELSE BranchScanFrom(g, i, BranchScanRow(g, i, 1, sc))

\* len(expand_possibilities) > p: an int on the left, the set p on the right.
\* Python 3 orders no int against a set and raises TypeError.
LenGreaterThan(n, p) == [exc |-> "TypeError", value |-> FALSE]

\* for ij, p in all_possibilities.items(): if not expand_ixs or
\* len(expand_possibilities) > p: take it. The comparison is evaluated only
\* when expand_ixs is already set ("or" short-circuits).
RECURSIVE SelectLoop(_, _, _)
SelectLoop(items, k, sc) ==
    IF k > Len(items) THEN sc
    ELSE
      LET take == [sc EXCEPT !.expand_ixs = items[k].ij,
                             !.expand_possibilities = items[k].p]
      IN  IF sc.expand_ixs = None
          THEN SelectLoop(items, k + 1, take)
          ELSE
            LET c == LenGreaterThan(Cardinality(sc.expand_possibilities), items[k].p)
            IN  IF c.exc # "none" THEN [sc EXCEPT !.exc = c.exc]
                ELSE IF c.value THEN SelectLoop(items, k + 1, take)
                ELSE SelectLoop(items, k + 1, sc)

\* if expand_ixs is None: the selection loop runs over all_possibilities
\* (lines 254-258), on what the scan left.
Select(sc) ==
    IF sc.exc = "none" /\ sc.expand_ixs = None
    THEN SelectLoop(sc.all_possibilities, 1, sc)
    ELSE sc

\* i, j = expand_ixs (line 260): a TypeError when expand_ixs is still None.
Unpack(sc) ==
    IF sc.exc = "none" /\ sc.expand_ixs = None
    THEN [sc EXCEPT !.exc = "TypeError"]
    ELSE sc

\* Lines 234-260 of dynamic_solve: the scan from an empty all_possibilities
\* and no branch cell, the selection when the scan chose nothing, and the
\* unpacking of the chosen cell.
ChooseBranchCell(g) ==
    Unpack(Select(BranchScan(g, 1,
        [all_possibilities |-> <<>>, expand_ixs |-> None,
         expand_possibilities |-> {}, exc |-> "none", stop |-> FALSE])))

\* sorted(expand_possibilities)
RECURSIVE sorted(_)
sorted(S) ==
    IF S = {} THEN <<>>
    ELSE LET m == CHOOSE x \in S : \A y \in S : x <= y
         IN  <<m>> \o sorted(S \ {m})

(***************************************************************************)
(* The call stack of dynamic_solve                                         *)
(*                                                                         *)
(* A frame is one activation of Solver.dynamic_solve:                      *)
(*   sudoku      self.sudoku, the grid the call works on in place          *)
(*   pc          "simple_fill", "validate", "scan" or "branch"             *)
(*   u           the unit single_pass calls fill_subarray on next (1..27)  *)
(*   n           single_pass's running count, filled                       *)
(*   filled      simple_fill's running total, filled                       *)
(*   expand_ixs  the branch cell                                           *)
(*   todo        the values of sorted(expand_possibilities) not yet tried  *)
(*   solutions   the accumulator                                           *)
(* and three history fields:                                               *)
(*   received    fillcount of the grid when the call started               *)
(*   pass_start  fillcount of the grid when the current single_pass began  *)
(*   passes      how many single_pass calls of this frame returned n > 0   *)
(***************************************************************************)

NewFrame(g) ==
    [sudoku |-> g, pc |-> "simple_fill", u |-> 1, n |-> 0, filled |-> 0,
     expand_ixs |-> None, todo |-> <<>>, solutions |-> {},
     received |-> fillcount(g), pass_start |-> fillcount(g), passes |-> 0]

Running == [status |-> "running", solutions |-> {}]

Top == stack[Len(stack)]

\* What the last step did: the operation, the depth of the frame that did it,
\* the grid before it, the cell writes it made, how the call ended if it did
\* ("none", "return" or the exception raised) and the set it returned.
Event(op, depth, before, writes, exit, value) ==
    [op |-> op, depth |-> depth, before |-> before, writes |-> writes,
     exit |-> exit, value |-> value]

\* The end of the call on top of stk. A returned set is united into the
\* caller's accumulator (solutions.update, line 271) or is the program's
\* result (line 283); Invalid is swallowed by the caller's except clause
\* (lines 268-269); any exception with no handler ends the program.
Unwind(stk, exit, value) ==
    LET rest == SubSeq(stk, 1, Len(stk) - 1)
    IN  IF exit = "return"
        THEN IF Len(stk) = 1
             THEN [stack |-> <<>>,
                   result |-> [status |-> "returned", solutions |-> value]]
             ELSE [stack |-> [rest EXCEPT ![Len(rest)].solutions = @ \cup value],
                   result |-> Running]
        ELSE IF exit = "Invalid" /\ Len(stk) > 1
        THEN [stack |-> rest, result |-> Running]
        ELSE [stack |-> <<>>, result |-> [status |-> exit, solutions |-> {}]]

(***************************************************************************)
(* The input grids: what Sudoku.from_strs hands to Solver                  *)
(***************************************************************************)

\* A complete valid grid.
Solved ==
    << <<1, 2, 3, 4, 5, 6, 7, 8, 9>>,
       <<4, 5, 6, 7, 8, 9, 1, 2, 3>>,
       <<7, 8, 9, 1, 2, 3, 4, 5, 6>>,
       <<2, 3, 4, 5, 6, 7, 8, 9, 1>>,
       <<5, 6, 7, 8, 9, 1, 2, 3, 4>>,
       <<8, 9, 1, 2, 3, 4, 5, 6, 7>>,
       <<3, 4, 5, 6, 7, 8, 9, 1, 2>>,
       <<6, 7, 8, 9, 1, 2, 3, 4, 5>>,
       <<9, 1, 2, 3, 4, 5, 6, 7, 8>> >>

\* A puzzle with one completion, which simple_fill alone finds.
Classic ==
    << <<5, 3, 0, 0, 7, 0, 0, 0, 0>>,
       <<6, 0, 0, 1, 9, 5, 0, 0, 0>>,
       <<0, 9, 8, 0, 0, 0, 0, 6, 0>>,
       <<8, 0, 0, 0, 6, 0, 0, 0, 3>>,
       <<4, 0, 0, 8, 0, 3, 0, 0, 1>>,
       <<7, 0, 0, 0, 2, 0, 0, 0, 6>>,
       <<0, 6, 0, 0, 0, 0, 2, 8, 0>>,
       <<0, 0, 0, 4, 1, 9, 0, 0, 5>>,
       <<0, 0, 0, 0, 8, 0, 0, 7, 9>> >>

\* A puzzle with two completions, found by branching on a two-candidate cell.
TwoSolutions ==
    << <<1, 2, 0, 0, 5, 6, 0, 8, 0>>,
       <<4, 5, 0, 7, 0, 0, 1, 2, 0>>,
       <<7, 8, 0, 1, 2, 3, 4, 5, 0>>,
       <<0, 3, 0, 0, 0, 7, 8, 9, 1>>,
       <<5, 6, 0, 0, 9, 0, 2, 3, 4>>,
       <<8, 0, 1, 2, 3, 0, 0, 6, 7>>,
       <<3, 4, 0, 6, 0, 0, 9, 1, 2>>,
       <<6, 7, 8, 9, 0, 2, 3, 4, 5>>,
       <<0, 0, 2, 3, 4, 0, 6, 7, 8>> >>

\* A valid grid with no completion, which simple_fill does not refute.
DeadEnd ==
    << <<1, 0, 0, 6, 0, 0, 0, 8, 9>>,
       <<0, 5, 6, 7, 8, 0, 1, 0, 0>>,
       <<0, 8, 0, 1, 0, 0, 0, 5, 6>>,
       <<0, 3, 0, 5, 0, 0, 0, 0, 0>>,
       <<0, 6, 7, 0, 0, 1, 0, 0, 0>>,
       <<0, 0, 0, 2, 0, 0, 0, 6, 0>>,
       <<3, 0, 0, 0, 7, 0, 0, 0, 2>>,
       <<6, 7, 0, 9, 0, 0, 0, 4, 0>>,
       <<9, 0, 0, 3, 4, 0, 6, 0, 0>> >>

\* A puzzle whose first branch leaves a grid with no two-candidate cell.
Wide ==
    << <<0, 0, 0, 4, 5, 6, 7, 0, 9>>,
       <<0, 5, 6, 0, 0, 0, 0, 0, 3>>,
       <<7, 8, 9, 0, 2, 0, 4, 5, 0>>,
       <<0, 0, 0, 0, 6, 0, 0, 9, 0>>,
       <<5, 6, 0, 8, 0, 0, 0, 0, 0>>,
       <<0, 0, 0, 2, 3, 0, 5, 6, 0>>,
       <<0, 4, 5, 6, 7, 0, 0, 1, 0>>,
       <<0, 0, 8, 0, 1, 0, 3, 0, 5>>,
       <<9, 1, 0, 0, 4, 5, 6, 7, 8>> >>

\* A valid grid in which 5 and 7 can both go only to cell (1, 1) of row 1.
Clash ==
    << <<0, 0, 0, 0, 1, 2, 3, 4, 6>>,
       <<0, 0, 0, 5, 0, 0, 0, 0, 0>>,
       <<0, 0, 0, 7, 0, 0, 0, 0, 0>>,
       <<0, 5, 0, 0, 0, 0, 0, 0, 0>>,
       <<0, 7, 0, 0, 0, 0, 0, 0, 0>>,
       <<0, 0, 0, 0, 0, 0, 0, 0, 0>>,
       <<0, 0, 5, 0, 0, 0, 0, 0, 0>>,
       <<0, 0, 7, 0, 0, 0, 0, 0, 0>>,
       <<0, 0, 0, 0, 0, 0, 0, 0, 0>> >>

\* A grid with 5 twice in row 1 (and in box 1).
Repeated ==
    << <<5, 5, 0, 0, 0, 0, 0, 0, 0>>,
       <<0, 0, 0, 0, 0, 0, 0, 0, 0>>,
       <<0, 0, 0, 0, 0, 0, 0, 0, 0>>,
       <<0, 0, 0, 0, 0, 0, 0, 0, 0>>,
       <<0, 0, 0, 0, 0, 0, 0, 0, 0>>,
       <<0, 0, 0, 0, 0, 0, 0, 0, 0>>,
       <<0, 0, 0, 0, 0, 0, 0, 0, 0>>,
       <<0, 0, 0, 0, 0, 0, 0, 0, 0>>,
       <<0, 0, 0, 0, 0, 0, 0, 0, 0>> >>

\* The grid with no givens.
Blank ==
    << <<0, 0, 0, 0, 0, 0, 0, 0, 0>>,
       <<0, 0, 0, 0, 0, 0, 0, 0, 0>>,
       <<0, 0, 0, 0, 0, 0, 0, 0, 0>>,
       <<0, 0, 0, 0, 0, 0, 0, 0, 0>>,
       <<0, 0, 0, 0, 0, 0, 0, 0, 0>>,
       <<0, 0, 0, 0, 0, 0, 0, 0, 0>>,
       <<0, 0, 0, 0, 0, 0, 0, 0, 0>>,
       <<0, 0, 0, 0, 0, 0, 0, 0, 0>>,
       <<0, 0, 0, 0, 0, 0, 0, 0, 0>> >>

Puzzles == <<Solved, Classic, TwoSolutions, DeadEnd, Wide, Clash, Repeated, Blank>>

\* The cells an input may have blanked, and how many of them at most.
ErasableCells == {<<1, 7>>, <<7, 1>>, <<8, 4>>, <<8, 5>>}

MaxErased == 1

\* The grid g with the cells of E set to 0.
Erase(g, E) ==
    [i \in 1..N |-> [j \in 1..N |-> IF <<i, j>> \in E THEN 0 ELSE g[i][j]]]

Inputs ==
    {Erase(Puzzles[k], E) :
        k \in 1..Len(Puzzles),
        E \in {X \in SUBSET ErasableCells : Cardinality(X) <= MaxErased}}

\* solver = Solver(sudoku); solver.dynamic_solve() is about to run.
Init ==
    /\ input \in Inputs
    /\ stack = <<NewFrame(input)>>
    /\ result = Running
    /\ last = Event("start", 0, input, <<>>, "none", {})

\* One fill_subarray call of single_pass (lines 208-215): the unit's fills
\* are added to single_pass's count; Invalid leaves the call with the grid as
\* far as it was written.
FillUnit ==
    /\ stack # <<>>
    /\ Top.pc = "simple_fill"
    /\ Top.u <= 3 * N
    /\ LET f == Top
           d == Len(stack)
           r == fill_subarray(f.sudoku, UnitAt(f.u))
       IN  /\ last' = Event("fill_subarray", d, f.sudoku, r.writes, r.exc, {})
           /\ IF r.exc # "none"
              THEN LET w == Unwind([stack EXCEPT ![d].sudoku = r.grid], r.exc, {})
                   IN  stack' = w.stack /\ result' = w.result
              ELSE /\ result' = result
                   /\ stack' = [stack EXCEPT ![d].sudoku = r.grid,
                                             ![d].n = @ + r.filled,
                                             ![d].u = @ + 1]
    /\ UNCHANGED input

\* simple_fill returning after its first pass whatever it filled.
PassAgain_Never(n) == FALSE

\* The test of simple_fill on what single_pass returned (line 223): another
\* pass follows unless n == 0.
PassAgain(n) == ~(n = 0)

\* The loop of simple_fill once single_pass has returned n (lines 222-225):
\* n == 0 returns to dynamic_solve, otherwise filled += n and another pass.
SimpleFillLoop ==
    /\ stack # <<>>
    /\ Top.pc = "simple_fill"
    /\ Top.u > 3 * N
    /\ LET f == Top
           d == Len(stack)
       IN  /\ last' = Event("single_pass", d, f.sudoku, <<>>, "none", {})
           /\ stack' =
                IF ~PassAgain(f.n)
                THEN [stack EXCEPT ![d].pc = "validate"]
                ELSE [stack EXCEPT ![d].n = 0, ![d].u = 1,
                                   ![d].filled = @ + f.n,
                                   ![d].passes = @ + 1,
                                   ![d].pass_start = fillcount(f.sudoku)]
    /\ UNCHANGED <<input, result>>

\* Lines 229-232: an invalid grid raises Invalid, a complete one is returned
\* as a singleton set, any other goes on to the branch-cell scan.
Validate ==
    /\ stack # <<>>
    /\ Top.pc = "validate"
    /\ LET f == Top
           d == Len(stack)
           exit == IF ~is_valid(f.sudoku) THEN "Invalid"
                   ELSE IF solved(f.sudoku) THEN "return"
                   ELSE "none"
           value == IF exit = "return" THEN {f.sudoku} ELSE {}
       IN  /\ last' = Event("validate", d, f.sudoku, <<>>, exit, value)
           /\ IF exit = "none"
              THEN /\ stack' = [stack EXCEPT ![d].pc = "scan"]
                   /\ result' = result
              ELSE LET w == Unwind(stack, exit, value)
                   IN  stack' = w.stack /\ result' = w.result
    /\ UNCHANGED input

\* Lines 234-261: the choice of the branch cell; solutions = set().
Scan ==
    /\ stack # <<>>
    /\ Top.pc = "scan"
    /\ LET f == Top
           d == Len(stack)
           sc == ChooseBranchCell(f.sudoku)
       IN  /\ last' = Event("scan", d, f.sudoku, <<>>, sc.exc, {})
           /\ IF sc.exc = "none"
              THEN /\ stack' = [stack EXCEPT ![d].pc = "branch",
                                             ![d].expand_ixs = sc.expand_ixs,
                                             ![d].todo = sorted(sc.expand_possibilities),
                                             ![d].solutions = {}]
                   /\ result' = result
              ELSE LET w == Unwind(stack, sc.exc, {})
                   IN  stack' = w.stack /\ result' = w.result
    /\ UNCHANGED input

\* The copy handed on without the candidate placed in it.
BranchGrid_Unset(g, i, j, p) == [grid |-> g, exc |-> "none"]

\* new_sudoku = self.sudoku.copy(); new_sudoku[i, j] = p (lines 263-264)
BranchGrid(g, i, j, p) == SudokuSet(g, i, j, p)

\* One turn of the loop over sorted(expand_possibilities) (lines 262-267): the
\* grid is copied, the value is stored at the branch cell of the copy through
\* Sudoku.__setitem__, and dynamic_solve is called on the copy.
Branch ==
    /\ stack # <<>>
    /\ Top.pc = "branch"
    /\ Top.todo # <<>>
    /\ LET f == Top
           d == Len(stack)
           p == Head(f.todo)
           i == f.expand_ixs[1]
           j == f.expand_ixs[2]
           w == BranchGrid(f.sudoku, i, j, p)
           popped == [stack EXCEPT ![d].todo = Tail(@)]
       IN  /\ last' = Event("branch", d, f.sudoku,
                            IF w.exc = "none"
                            THEN <<WriteRec(i, j, f.sudoku[i][j], p, "Sudoku")>> ELSE <<>>,
                            w.exc, {})
           /\ IF w.exc = "none"
              THEN /\ stack' = Append(popped, NewFrame(w.grid))
                   /\ result' = result
              ELSE LET x == Unwind(popped, w.exc, {})
                   IN  stack' = x.stack /\ result' = x.result
    /\ UNCHANGED input

\* The end of the loop failing with Invalid when the accumulator is empty.
AfterBranches_Raising(solutions) ==
    IF solutions = {} THEN [exit |-> "Invalid", value |-> {}]
    ELSE [exit |-> "return", value |-> solutions]

\* What dynamic_solve does once every candidate has been tried (line 273).
AfterBranches(solutions) == [exit |-> "return", value |-> solutions]

\* The end of the loop over the candidates: return solutions.
Return ==
    /\ stack # <<>>
    /\ Top.pc = "branch"
    /\ Top.todo = <<>>
    /\ LET f == Top
           d == Len(stack)
           a == AfterBranches(f.solutions)
           w == Unwind(stack, a.exit, a.value)
       IN  /\ last' = Event("return", d, f.sudoku, <<>>, a.exit, a.value)
           /\ stack' = w.stack
           /\ result' = w.result
    /\ UNCHANGED input

Next ==
    \/ FillUnit
    \/ SimpleFillLoop
    \/ Validate
    \/ Scan
    \/ Branch
    \/ Return

Spec == Init /\ [][Next]_vars

(***************************************************************************)
(* What the properties speak of, defined apart from the solver             *)
(***************************************************************************)

Cells == (1..N) \X (1..N)

\* Two different cells of one row, one column or one 3x3 box.
SameUnit(c, d) ==
    /\ c # d
    /\ \/ c[1] = d[1]
       \/ c[2] = d[2]
       \/ /\ (c[1] - 1) \div 3 = (d[1] - 1) \div 3
          /\ (c[2] - 1) \div 3 = (d[2] - 1) \div 3

\* The cells that share a row, a column or a box with c.
Peers == [c \in Cells |-> {d \in Cells : SameUnit(c, d)}]

\* No row, column or box holds a non-zero value twice.
NoRepeat(g) ==
    \A c \in Cells :
        g[c[1]][c[2]] # 0 => \A d \in Peers[c] : g[d[1]][d[2]] # g[c[1]][c[2]]

\* Every cell is filled.
Full(g) == \A c \in Cells : g[c[1]][c[2]] # 0

\* s keeps every given of g.
Agrees(g, s) == \A c \in Cells : g[c[1]][c[2]] # 0 => s[c[1]][c[2]] = g[c[1]][c[2]]

\* The values no cell sharing a unit with c holds.
Allowed(g, c) == {v \in Digits : \A d \in Peers[c] : g[d[1]][d[2]] # v}

\* Every full grid without repeats that extends g, for g without repeats:
\* exhaustive search on an empty cell with the fewest allowed values.
RECURSIVE Extensions(_)
Extensions(g) ==
    LET empty == {c \in Cells : g[c[1]][c[2]] = 0}
    IN  IF empty = {} THEN {g}
        ELSE LET c == CHOOSE x \in empty :
                        \A y \in empty : Cardinality(Allowed(g, x)) <= Cardinality(Allowed(g, y))
             IN  UNION {Extensions([g EXCEPT ![c[1]][c[2]] = v]) : v \in Allowed(g, c)}

\* The completions of g: the full grids without repeats that agree with g.
Completions(g) == IF NoRepeat(g) THEN Extensions(g) ELSE {}

\* Some full grid without repeats extends g, for g without repeats: the same
\* search, ended at the first full grid.
RECURSIVE Extendable(_)
Extendable(g) ==
    LET empty == {c \in Cells : g[c[1]][c[2]] = 0}
    IN  IF empty = {} THEN TRUE
        ELSE LET c == CHOOSE x \in empty :
                        \A y \in empty : Cardinality(Allowed(g, x)) <= Cardinality(Allowed(g, y))
             IN  \E v \in Allowed(g, c) : Extendable([g EXCEPT ![c[1]][c[2]] = v])

\* g has a completion.
HasCompletion(g) == NoRepeat(g) /\ Extendable(g)

Done == stack = <<>>

(***************************************************************************)
(* Properties                                                              *)
(***************************************************************************)

\* The grid g after the first k writes of ws.
AfterWrites(g, ws, k) ==
    [i \in 1..N |-> [j \in 1..N |->
        LET hits == {m \in 1..k : ws[m].i = i /\ ws[m].j = j}
        IN  IF hits = {} THEN g[i][j]
            ELSE ws[CHOOSE m \in hits : \A x \in hits : x <= m].new]]

\* The number of candidates of cell c of g, as the solver counts them.
NumCandidates(g, c) == Cardinality(Possibilities(g, c[1], c[2]))

EmptyCells(g) == {c \in Cells : g[c[1]][c[2]] = 0}

\* c comes before d in row-major order, or is d.
Before(c, d) == c[1] < d[1] \/ (c[1] = d[1] /\ c[2] <= d[2])

\* C1: once the top-level dynamic_solve has ended on an input that has a
\* completion, it has returned, and the set it returned is exactly the set of
\* the completions of the input.
C1_AllCompletions ==
    (Done /\ HasCompletion(input)) =>
        (result.status = "returned" /\ result.solutions = Completions(input))

\* C2: every grid of a solution set returned by dynamic_solve, at any depth of
\* the recursion, and every grid of the program's result, has no repeat in a
\* row, column or box (is_valid) and has 81 filled cells.
C2_ReturnedGridsSolved ==
    /\ last.exit = "return" =>
          \A s \in last.value : is_valid(s) /\ NoRepeat(s) /\ fillcount(s) = 81 /\ Full(s)
    /\ \A s \in result.solutions : is_valid(s) /\ NoRepeat(s) /\ fillcount(s) = 81 /\ Full(s)

\* C2 witness: a recursive call has returned a non-empty set to its caller.
C2_Witness ==
    /\ last.exit = "return"
    /\ last.depth > 1
    /\ last.value # {}
    /\ stack # <<>>
    /\ last.value \subseteq Top.solutions

\* C3: once the top-level dynamic_solve has ended on an input with a value
\* twice in a row, column or box, it has returned the empty set: the input
\* never ends the program with an unhandled exception.
C3_RepeatGivesEmptySet ==
    (Done /\ ~NoRepeat(input)) =>
        (result.status = "returned" /\ result.solutions = {})

\* C4, as claimed: a call whose loop over the candidates ends with an empty
\* accumulator fails with Invalid.
C4_EmptyAccumulatorRaises ==
    (last.op = "return" /\ last.value = {}) => last.exit = "Invalid"

\* C4, amended: a call whose loop over the candidates has ended returns its
\* accumulator, empty or not: the caller unites it into its own accumulator
\* and goes on, and the outermost call makes it the program's result.
C4_AccumulatorReturned ==
    [][(stack # <<>> /\ Top.pc = "branch" /\ Top.todo = <<>>) =>
          /\ last'.exit = "return"
          /\ last'.value = Top.solutions
          /\ IF Len(stack) = 1
             THEN stack' = <<>> /\ result' = [status |-> "returned", solutions |-> Top.solutions]
             ELSE /\ Len(stack') = Len(stack) - 1
                  /\ stack'[Len(stack')].solutions =
                        stack[Len(stack) - 1].solutions \cup Top.solutions
                  /\ result' = Running]_vars

\* C4 witness: a call has returned the empty set after every candidate of its
\* branch cell failed.
C4_Witness ==
    /\ last.op = "return"
    /\ last.exit = "return"
    /\ last.value = {}

\* C5: every write of the propagation and of the search stores into a cell
\* that holds 0.
C5_WriteOnce ==
    \A k \in 1..Len(last.writes) : last.writes[k].old = 0

\* C6: when the scan of a grid finds no empty cell with exactly 2 candidates,
\* dynamic_solve goes on to branch on the empty cell with the fewest
\* candidates, the first such cell in row-major order.
C6_SmallestCellChosen ==
    (/\ last.op = "scan"
     /\ \A c \in EmptyCells(last.before) : NumCandidates(last.before, c) > 2) =>
        /\ last.exit = "none"
        /\ stack # <<>>
        /\ Top.pc = "branch"
        /\ Top.expand_ixs \in EmptyCells(last.before)
        /\ \A c \in EmptyCells(last.before) :
              \/ NumCandidates(last.before, Top.expand_ixs) < NumCandidates(last.before, c)
              \/ /\ NumCandidates(last.before, Top.expand_ixs) = NumCandidates(last.before, c)
                 /\ Before(Top.expand_ixs, c)

\* C7: a round of simple_fill (fill_subarray on the 9 rows, the 9 columns and
\* the 9 boxes) that reports a non-zero count has raised the number of
\* non-zero cells of the grid, so that the rounds of one simple_fill that
\* report fills never outnumber the cells it filled, 81 at most.
C7_RoundsAdvance ==
    /\ (stack # <<>> /\ Top.pc = "simple_fill" /\ Top.u > 3 * N /\ Top.n > 0) =>
          fillcount(Top.sudoku) > Top.pass_start
    /\ \A d \in 1..Len(stack) :
          /\ stack[d].passes <= fillcount(stack[d].sudoku) - stack[d].received
          /\ stack[d].passes <= 81

\* C7 witness: a second round of one simple_fill has ended with fills.
C7_Witness ==
    /\ stack # <<>>
    /\ Top.pc = "simple_fill"
    /\ Top.u > 3 * N
    /\ Top.n > 0
    /\ Top.passes >= 1

\* The work a frame has left, as a tuple that every step of the frame makes
\* smaller in lexicographic order: the phases still ahead, the empty cells
\* when its current pass began, the units its pass has not visited, the
\* candidates it has not tried.
Rank(f) ==
    << CASE f.pc = "simple_fill" -> 3
         [] f.pc = "validate" -> 2
         [] f.pc = "scan" -> 1
         [] f.pc = "branch" -> 0,
       81 - f.pass_start,
       3 * N + 1 - f.u,
       Len(f.todo) >>

\* a is below b in lexicographic order (tuples of one length).
LexLess(a, b) ==
    \E k \in 1..Len(a) : a[k] < b[k] /\ \A m \in 1..(k - 1) : a[m] = b[m]

\* The stack s is below the stack t: s is t with frames popped, or at the
\* first frame where their ranks differ s has the lower rank.
StackLess(s, t) ==
    \/ Len(s) < Len(t) /\ \A d \in 1..Len(s) : Rank(s[d]) = Rank(t[d])
    \/ \E d \in 1..Len(s) :
          /\ d <= Len(t)
          /\ LexLess(Rank(s[d]), Rank(t[d]))
          /\ \A m \in 1..(d - 1) : Rank(s[m]) = Rank(t[m])

\* C8: the grid a recursive dynamic_solve call receives has more non-zero
\* cells than the grid its caller received, and the recursion is never deeper
\* than the number of empty cells of the input.
C8_DepthInvariant ==
    /\ \A d \in 2..Len(stack) : stack[d].received > stack[d - 1].received
    /\ Len(stack) - 1 <= Cardinality(EmptyCells(input))

\* C8: the depth invariant holds throughout, and every step of the program
\* lowers the stack in a well-founded order, so that the top-level call ends.
C8_DepthBounded == []C8_DepthInvariant /\ [][StackLess(stack', stack)]_vars

\* C8 witness: a recursive call has itself made a recursive call.
C8_Witness == Len(stack) >= 3

\* C9: a fill_subarray call on a grid without repeats leaves it without
\* repeats after every one of its writes, whether it returns or raises
\* Invalid; and the validity check of dynamic_solve fails only in the
\* outermost call, on an input that has a repeat.
C9_ValidityPreserved ==
    /\ (last.op = "fill_subarray" /\ NoRepeat(last.before)) =>
          \A k \in 1..Len(last.writes) :
              NoRepeat(AfterWrites(last.before, last.writes, k))
    /\ (last.op = "validate" /\ last.exit = "Invalid") =>
          (last.depth = 1 /\ ~NoRepeat(input))

\* C9 witness: one fill_subarray call on a grid without repeats has placed a
\* naked single and then a hidden single.
C9_Witness ==
    /\ last.op = "fill_subarray"
    /\ NoRepeat(last.before)
    /\ \E a, b \in 1..Len(last.writes) :
          a < b /\ last.writes[a].via = "Sudoku" /\ last.writes[b].via = "SubArray"

\* C10: when dynamic_solve is at the branch-cell scan, every empty cell of
\* its grid has at least 2 candidates, and the scan neither raises Invalid nor
\* fails its assertion.
C10_ScanSeesTwoOrMore ==
    /\ (stack # <<>> /\ Top.pc = "scan") =>
          \A c \in EmptyCells(Top.sudoku) : NumCandidates(Top.sudoku, c) >= 2
    /\ last.op = "scan" => last.exit \notin {"Invalid", "AssertionError"}

\* C10 witness: the scan is about to run on a grid with a two-candidate cell
\* and a cell with more candidates.
C10_Witness ==
    /\ stack # <<>>
    /\ Top.pc = "scan"
    /\ \E c \in EmptyCells(Top.sudoku) : NumCandidates(Top.sudoku, c) = 2
    /\ \E c \in EmptyCells(Top.sudoku) : NumCandidates(Top.sudoku, c) > 2

====
